---- MODULE Spec2Model ----
(***************************************************************************)
(* Model of the fuzzy parser of clang-highlight (src/Fuzzy/FuzzyParser.cpp).*)
(*                                                                         *)
(* The token buffer [first, last) is the sequence Toks of token kinds; a   *)
(* token pointer is an index 1..Len(Toks), `last` is Len(Toks)+1 and the   *)
(* null pointer is 0.  Every parsing function of the source is an operator *)
(* over the cursor value tf = [First, Last, fault, Claimed]:               *)
(*   First, Last  the two pointers of TokenFilter;                         *)
(*   fault        "none", or the first failed assertion / undefined        *)
(*                operation of the run (the run stops there: a faulted     *)
(*                cursor yields no token and every operation on it is a    *)
(*                no-op, so the enclosing calls unwind);                   *)
(*   Claimed      the tokens whose AST back-reference has been written.    *)
(* An AST node is a record [kind, toks, kids]: the tokens the node itself  *)
(* references, and its owned children in order.  A null unique_ptr is Nil. *)
(***************************************************************************)
EXTENDS Integers, Sequences, FiniteSets, TLC

VARIABLES Toks, NDEBUG, TF, TU, pc

vars == <<Toks, NDEBUG, TF, TU, pc>>

(***************************************************************************)
(* Token kinds and their classification.                                   *)
(***************************************************************************)
prec ==
    [Unknown |-> 0, Comma |-> 1, Assignment |-> 2, Conditional |-> 3,
     LogicalOr |-> 4, LogicalAnd |-> 5, InclusiveOr |-> 6, ExclusiveOr |-> 7,
     And |-> 8, Equality |-> 9, Relational |-> 10, Shift |-> 11,
     Additive |-> 12, Multiplicative |-> 13, PointerToMember |-> 14]

PrecedenceUnaryOperator == prec.PointerToMember + 1

PrecedenceArrowAndPeriod == prec.PointerToMember + 2

getBinOpPrecedence(Kind, GreaterThanIsOperator, CPlusPlus11) ==
    CASE Kind = "greater" ->
            IF GreaterThanIsOperator THEN prec.Relational ELSE prec.Unknown
      [] Kind = "greatergreater" ->
            IF GreaterThanIsOperator \/ ~CPlusPlus11 THEN prec.Shift
            ELSE prec.Unknown
      [] Kind = "comma" -> prec.Comma
      [] Kind \in {"equal", "starequal", "slashequal", "plusequal",
                   "minusequal"} -> prec.Assignment
      [] Kind = "question" -> prec.Conditional
      [] Kind = "pipepipe" -> prec.LogicalOr
      [] Kind = "ampamp" -> prec.LogicalAnd
      [] Kind = "pipe" -> prec.InclusiveOr
      [] Kind = "caret" -> prec.ExclusiveOr
      [] Kind = "amp" -> prec.And
      [] Kind \in {"exclaimequal", "equalequal"} -> prec.Equality
      [] Kind \in {"lessequal", "less", "greaterequal"} -> prec.Relational
      [] Kind = "lessless" -> prec.Shift
      [] Kind \in {"plus", "minus"} -> prec.Additive
      [] Kind \in {"percent", "slash", "star"} -> prec.Multiplicative
      [] Kind \in {"periodstar", "arrowstar"} -> prec.PointerToMember
      [] OTHER -> prec.Unknown

isLiteralOrConstant(K) ==
    K \in {"numeric_constant", "char_constant", "string_literal",
           "kw_true", "kw_false", "kw___objc_yes", "kw___objc_no",
           "kw_nullptr"}

BuiltinTypeKinds ==
    {"kw_short", "kw_long", "kw___int64", "kw___int128", "kw_signed",
     "kw_unsigned", "kw__Complex", "kw__Imaginary", "kw_void", "kw_char",
     "kw_wchar_t", "kw_char16_t", "kw_char32_t", "kw_int", "kw_half",
     "kw_float", "kw_double", "kw_bool", "kw__Bool", "kw__Decimal32",
     "kw__Decimal64", "kw__Decimal128", "kw___vector"}

isBuiltinType(K) == K \in BuiltinTypeKinds

CVQualifierKinds == {"kw_const", "kw_volatile", "kw_register"}

isCVQualifier(K) == K \in CVQualifierKinds

(***************************************************************************)
(* AST nodes.                                                              *)
(***************************************************************************)
Nil == [kind |-> "null", toks |-> <<>>, kids |-> <<>>]

Node(kind) == [kind |-> kind, toks |-> <<>>, kids |-> <<>>]

addTok(n, tok) == [n EXCEPT !.toks = Append(@, tok)]

addKid(n, kid) == [n EXCEPT !.kids = Append(@, kid)]

IsDecoration(n) == n.kind \in {"Pointer", "Reference"}

NotDecoration(n) == ~IsDecoration(n)

cloneWithoutDecorations(T) == [T EXCEPT !.kids = SelectSeq(@, NotDecoration)]

(***************************************************************************)
(* TokenFilter: the filtered, rewindable cursor.                           *)
(***************************************************************************)
TokenFilter(first, last) ==
    [First |-> first, Last |-> last, fault |-> "none", Claimed |-> {}]

Faulted(tf) == tf.fault # "none"

Fault(tf, what) == IF Faulted(tf) THEN tf ELSE [tf EXCEPT !.fault = what]

\* assert(cond): aborts the run unless NDEBUG compiles it out.
assert(tf, cond, what) == IF cond \/ NDEBUG THEN tf ELSE Fault(tf, what)

peek(tf) == IF tf.fault # "none" THEN 0 ELSE tf.First

RECURSIVE SkipHidden(_, _)
SkipHidden(f, last) ==
    IF f # last /\ Toks[f] \in {"unknown", "comment"}
    THEN SkipHidden(f + 1, last)
    ELSE f

\* The cursor after next(); the token next() returns is the one peek() gave.
\* First++ on the null pointer, or on `last`, is undefined.
next(tf) ==
    LET Stopped(f) ==
            IF f = tf.Last \/ Toks[f] = "eof"
            THEN [tf EXCEPT !.First = 0, !.Last = 0]
            ELSE [tf EXCEPT !.First = f]
    IN  IF Faulted(tf) THEN tf
        ELSE IF tf.First = 0 \/ tf.First = tf.Last THEN Fault(tf, "ub:next")
        ELSE Stopped(SkipHidden(tf.First + 1, tf.Last))

mark(tf) == [First |-> tf.First, Last |-> tf.Last]

rewindFirstOnlyMut(tf, State) == [tf EXCEPT !.First = State.First]

rewind(tf, State) == [tf EXCEPT !.First = State.First, !.Last = State.Last]

\* ~TokenFilterGuard(): rewinds unless the guard was dismissed.
TokenFilterGuard(State, r) ==
    [node |-> r.node,
     tf |-> IF r.dismissed THEN r.tf ELSE rewind(r.tf, State)]

checkKind(tf, Kind) == peek(tf) # 0 /\ Toks[peek(tf)] = Kind

checkKinds(tf, Kinds) == peek(tf) # 0 /\ Toks[peek(tf)] \in Kinds

\* Tok->setASTReference(node): the token's back-reference becomes non-null.
setASTReference(tf, tok) ==
    IF tok = 0 THEN tf ELSE [tf EXCEPT !.Claimed = @ \cup {tok}]

\* node.setX(TF.next()): the node stores the token and claims it.
setNext(n, tf) ==
    [node |-> addTok(n, peek(tf)),
     tf |-> setASTReference(next(tf), peek(tf))]

Ret(n, tf) == [node |-> n, tf |-> tf]

Fail(tf) == [node |-> Nil, tf |-> tf, dismissed |-> FALSE]

Commit(n, tf) == [node |-> n, tf |-> tf, dismissed |-> TRUE]

(***************************************************************************)
(* Expressions, qualified names and types.                                 *)
(***************************************************************************)
RECURSIVE parseExpression(_, _, _)
RECURSIVE parseUnaryOperator(_)
RECURSIVE parseCallExpr(_, _)
RECURSIVE parseQualifiedID(_, _)
RECURSIVE parseType(_, _)
RECURSIVE CallArgs(_)
RECURSIVE QualNames(_, _)
RECURSIVE TemplateArgs(_, _)
RECURSIVE BinaryLoop(_, _, _)
RECURSIVE Climb(_, _, _, _)
RECURSIVE TakeWhile(_, _)
RECURSIVE Decorations(_)

UnaryOperatorKinds ==
    {"plus", "minus", "exclaim", "tilde", "star", "amp", "plusplus",
     "minusminus"}

parseUnaryOperator(tf0) ==
    LET tf == assert(tf0, peek(tf0) # 0, "assert:84")
        Applied(Op, V) ==
            Ret([kind |-> "UnaryOperator", toks |-> <<Op>>,
                 kids |-> <<V.node>>],
                setASTReference(V.tf, Op))
    IN  IF ~checkKinds(tf, UnaryOperatorKinds)
        THEN parseExpression(tf, PrecedenceArrowAndPeriod, FALSE)
        ELSE Applied(peek(tf), parseUnaryOperator(next(tf)))

\* The argument loop of parseCallExpr; p.node is the CallExpr.
CallArgs(p) ==
    LET Argument(E, n) ==
            CASE Faulted(E.tf) -> Ret(n, E.tf)
              [] peek(E.tf) = 0 -> Ret(n, Fault(E.tf, "ub:104"))
              [] Toks[peek(E.tf)] = "comma" -> CallArgs(setNext(n, E.tf))
              [] OTHER -> Ret(n, E.tf)
        Parsed(E) == Argument(E, addKid(p.node, E.node))
    IN  IF Faulted(p.tf) \/ checkKind(p.tf, "r_paren") THEN p
        ELSE Parsed(parseExpression(p.tf, prec.Comma + 1, FALSE))

parseCallExpr(tf, FunctionName) ==
    LET Closing(A) ==
            IF checkKind(A.tf, "r_paren") THEN setNext(A.node, A.tf)
            ELSE Ret(Nil, A.tf)
    IN  Closing(CallArgs(setNext([kind |-> "CallExpr", toks |-> <<>>,
                                  kids |-> <<FunctionName>>], tf)))

\* The do-while loop over `::` and identifiers; p.node is Qual.
QualNames(p, GlobalNamespaceColon) ==
    LET AfterName(p2) ==
            IF checkKind(p2.tf, "coloncolon") THEN QualNames(p2, FALSE)
            ELSE Commit(p2.node, p2.tf)
        AfterColons(p1) ==
            IF ~checkKind(p1.tf, "identifier") THEN Fail(p1.tf)
            ELSE AfterName(setNext(p1.node, p1.tf))
    IN  IF ~checkKind(p.tf, "coloncolon") /\ ~GlobalNamespaceColon
        THEN Fail(p.tf)
        ELSE AfterColons(IF checkKind(p.tf, "coloncolon")
                         THEN setNext(p.node, p.tf)
                         ELSE p)

\* One template argument, its separator consumed: a type, or else an
\* expression; then `,` and the next argument, or the end of the loop.
TemplateArg(p1, Arg) ==
    LET More(n, tf) == IF checkKind(tf, "comma")
                       THEN TemplateArgs(Ret(n, tf), FALSE)
                       ELSE Commit(n, tf)
        Added(A) == More(addKid(p1.node, A.node), A.tf)
        AsExpression(E) == IF E.node # Nil THEN Added(E) ELSE Fail(E.tf)
    IN  IF Arg.node # Nil THEN Added(Arg)
        ELSE AsExpression(parseExpression(Arg.tf, prec.Comma + 1, TRUE))

\* The do-while loop over the template arguments; the cursor is at the
\* separator (`<` or `,`) the iteration consumes.
TemplateArgs(p, isFirst) ==
    LET p1 == setNext(p.node, p.tf)
    IN  IF isFirst /\ checkKind(p1.tf, "greater") THEN Commit(p1.node, p1.tf)
        ELSE TemplateArg(p1, parseType(p1.tf, TRUE))

\* After the names of a qualified id: the template argument list, if any.
parseQualifiedIDArgs(N) ==
    LET Taken(p) == Commit(p.node, p.tf)
        AfterArgs(A) ==
            IF ~A.dismissed THEN A
            ELSE IF ~checkKind(A.tf, "greater") THEN Fail(A.tf)
            ELSE Taken(setNext(A.node, A.tf))
    IN  IF ~N.dismissed THEN N
        ELSE IF checkKind(N.tf, "less") THEN AfterArgs(TemplateArgs(N, TRUE))
        ELSE N

parseQualifiedIDBody(tf, Qual) ==
    parseQualifiedIDArgs(QualNames(Ret(Qual, tf), TRUE))

\* Returns [ok, node, tf]: node is Qual as the call left it.
parseQualifiedID(tf, Qual) ==
    LET Guarded(b) ==
            [ok |-> b.dismissed /\ ~Faulted(b.tf), node |-> b.node,
             tf |-> TokenFilterGuard(mark(tf), b).tf]
    IN  Guarded(parseQualifiedIDBody(tf, Qual))

\* Precedence > PrecedenceArrowAndPeriod: a literal, a name or a call.
PrimaryDeclRef(DR) ==
    CASE ~DR.ok -> Ret(Nil, DR.tf)
      [] checkKind(DR.tf, "l_paren") -> parseCallExpr(DR.tf, DR.node)
      [] OTHER -> Ret(DR.node, DR.tf)

Primary(tf) ==
    CASE Faulted(tf) -> Ret(Nil, tf)
      [] peek(tf) = 0 -> Ret(Nil, Fault(tf, "ub:183"))
      [] isLiteralOrConstant(Toks[peek(tf)]) ->
           setNext(Node("LiteralConstant"), tf)
      [] ~(checkKind(tf, "identifier") \/ checkKind(tf, "coloncolon")) ->
           Ret(Nil, tf)
      [] OTHER -> PrimaryDeclRef(parseQualifiedID(tf, Node("DeclRefExpr")))

\* The while loop of parseExpression; p.node is LeftExpr.
BinaryLoop(p, Precedence, StopAtGreater) ==
    LET Joined(OperatorTok, RightExpr) ==
            IF RightExpr.node = Nil THEN Ret(Nil, RightExpr.tf)
            ELSE BinaryLoop(Ret([kind |-> "BinaryOperator",
                                 toks |-> <<OperatorTok>>,
                                 kids |-> <<p.node, RightExpr.node>>],
                                setASTReference(RightExpr.tf, OperatorTok)),
                            Precedence, StopAtGreater)
        Ranked(CurrentPrecedence, tf1) ==
            CASE CurrentPrecedence = 0 -> p
              [] Faulted(tf1) -> Ret(Nil, tf1)
              [] CurrentPrecedence < Precedence -> p
              [] OTHER ->
                   Joined(peek(tf1),
                          parseExpression(next(tf1), Precedence + 1,
                                          StopAtGreater))
        Looked(CurrentPrecedence) ==
            Ranked(CurrentPrecedence,
                   assert(p.tf, CurrentPrecedence <= Precedence,
                          "assert:210"))
    IN  CASE peek(p.tf) = 0 -> p
          [] StopAtGreater /\ checkKind(p.tf, "greater") -> p
          [] OTHER ->
               Looked(IF checkKind(p.tf, "period") \/ checkKind(p.tf, "arrow")
                      THEN PrecedenceArrowAndPeriod
                      ELSE getBinOpPrecedence(Toks[peek(p.tf)], TRUE, TRUE))

\* The precedence the loop of parseExpression sees at the cursor: 0 when the
\* loop ends without looking (no token, or `>` under StopAtGreater).
CurrentPrecedenceAt(tf, StopAtGreater) ==
    IF peek(tf) = 0 THEN 0
    ELSE IF StopAtGreater /\ checkKind(tf, "greater") THEN 0
    ELSE IF checkKind(tf, "period") \/ checkKind(tf, "arrow")
    THEN PrecedenceArrowAndPeriod
    ELSE getBinOpPrecedence(Toks[peek(tf)], TRUE, TRUE)

\* The binary levels on the way back from the operand: the calls at
\* Precedence, Precedence + 1, ..., prec.PointerToMember each pass the same
\* cursor down and, once the level above has returned, run their loop on
\* its result.  Climb runs those loops in the order the returns happen.  A
\* level whose loop ends at once (no operator at the cursor, or one of lower
\* precedence) returns its operand as it is: Climb passes over such levels.
Climb(p, Level, Precedence, StopAtGreater) ==
    LET CurrentPrecedence == CurrentPrecedenceAt(p.tf, StopAtGreater)
    IN  CASE Level < Precedence \/ Faulted(p.tf) -> p
          [] CurrentPrecedence = 0 -> p
          [] CurrentPrecedence < Level ->
               Climb(p, CurrentPrecedence, Precedence, StopAtGreater)
          [] OTHER ->
               Climb(BinaryLoop(p, Level, StopAtGreater), Level - 1,
                     Precedence, StopAtGreater)

parseExpression(tf0, Precedence, StopAtGreater) ==
    LET tf == assert(tf0, peek(tf0) # 0, "assert:177")
    IN  CASE Precedence = PrecedenceUnaryOperator -> parseUnaryOperator(tf)
          [] Precedence > PrecedenceArrowAndPeriod -> Primary(tf)
          [] Precedence = PrecedenceArrowAndPeriod ->
               BinaryLoop(Primary(tf), Precedence, StopAtGreater)
          [] OTHER ->
               Climb(parseUnaryOperator(tf), prec.PointerToMember,
                     Precedence, StopAtGreater)

\* while (TF.peek() && is<Kinds>(kind)) T->addNameQualifier(TF.next());
TakeWhile(p, Kinds) ==
    IF checkKinds(p.tf, Kinds) THEN TakeWhile(setNext(p.node, p.tf), Kinds)
    ELSE p

\* The while loop of parseTypeDecorations; p.node is the Type.
Decorations(p) ==
    LET Decorated(Dec) ==
            Decorations(Ret(addKid(p.node, Dec),
                            setASTReference(next(p.tf), peek(p.tf))))
    IN  IF checkKinds(p.tf, {"star", "amp", "ampamp"})
        THEN Decorated([kind |-> IF checkKind(p.tf, "star") THEN "Pointer"
                                 ELSE "Reference",
                        toks |-> <<peek(p.tf)>>, kids |-> <<>>])
        ELSE p

parseTypeDecorations(tf, T) == Decorations(Ret(T, tf))

\* After the leading qualifiers: the name of the type and what follows it.
parseTypeName(p1, WithDecorations) ==
    LET Taken(p4) == Commit(p4.node, p4.tf)
        Qualified(p3) ==
            Taken(IF WithDecorations
                  THEN parseTypeDecorations(p3.tf, p3.node)
                  ELSE p3)
        Named(p2) == Qualified(TakeWhile(p2, CVQualifierKinds))
        UserType(Q) ==
            IF ~Q.ok THEN Fail(Q.tf) ELSE Named(Ret(Q.node, Q.tf))
    IN  IF checkKind(p1.tf, "kw_auto") THEN Named(setNext(p1.node, p1.tf))
        ELSE IF checkKinds(p1.tf, BuiltinTypeKinds)
        THEN Named(TakeWhile(p1, BuiltinTypeKinds))
        ELSE UserType(parseQualifiedID(p1.tf, p1.node))

parseTypeBody(tf, WithDecorations) ==
    parseTypeName(TakeWhile(Ret(Node("Type"), tf), CVQualifierKinds),
                  WithDecorations)

parseType(tf, WithDecorations) ==
    TokenFilterGuard(mark(tf), parseTypeBody(tf, WithDecorations))

(***************************************************************************)
(* Declarations.                                                           *)
(***************************************************************************)
RECURSIVE parseAny(_, _, _)
RECURSIVE DeclLoop(_, _)
RECURSIVE ParamLoop(_)
RECURSIVE SkipToBody(_)
RECURSIVE SkipLoop(_)
RECURSIVE ScopeLoop(_)
RECURSIVE BaseLoop(_)
RECURSIVE SkipToBrace(_)

parseReturnStmtBody(tf) ==
    LET Return == peek(tf)
        tf1 == next(tf)
        Ended(tf2, Body) ==
            Commit([kind |-> "ReturnStmt", toks |-> <<Return, peek(tf2)>>,
                    kids |-> Body],
                   setASTReference(setASTReference(next(tf2), Return),
                                   peek(tf2)))
        WithBody(Body) ==
            IF Body.node = Nil \/ ~checkKind(Body.tf, "semi")
            THEN Fail(Body.tf)
            ELSE Ended(Body.tf, <<Body.node>>)
    IN  IF ~checkKind(tf, "kw_return") THEN Fail(tf)
        ELSE IF checkKind(tf1, "semi") THEN Ended(tf1, <<>>)
        ELSE WithBody(parseExpression(tf1, 1, FALSE))

parseReturnStmt(tf) == TokenFilterGuard(mark(tf), parseReturnStmtBody(tf))

\* The declarator D and its type are there: the initializer, if any.
parseVarDeclNamed(D, VariableType) ==
    LET VD == addKid(D.node, VariableType.node)
        Initialized(EqualTok, Value) ==
            IF Value.node = Nil THEN Fail(Value.tf)
            ELSE Commit(addKid(VD, [kind |-> "VarInitialization",
                                    toks |-> <<EqualTok>>,
                                    kids |-> <<Value.node>>]),
                        setASTReference(Value.tf, EqualTok))
    IN  IF checkKind(D.tf, "equal")
        THEN Initialized(peek(D.tf),
                         parseExpression(next(D.tf), prec.Comma + 1, FALSE))
        ELSE Commit(VD, D.tf)

\* The declarator's own type is there: its name, unless NameOptional.
parseVarDeclDecorated(VariableType, NameOptional) ==
    IF ~checkKind(VariableType.tf, "identifier") /\ ~NameOptional
    THEN Fail(VariableType.tf)
    ELSE parseVarDeclNamed(IF checkKind(VariableType.tf, "identifier")
                           THEN setNext(Node("VarDecl"), VariableType.tf)
                           ELSE Ret(Node("VarDecl"), VariableType.tf),
                           VariableType)

\* T is the type name, given or parsed: the declarator's type is a copy of
\* it without decorations, with the decorations that follow.
parseVarDeclTyped(T, NameOptional) ==
    IF T.node = Nil THEN Fail(T.tf)
    ELSE parseVarDeclDecorated(
           parseTypeDecorations(T.tf, cloneWithoutDecorations(T.node)),
           NameOptional)

parseVarDeclBody(tf, TypeName, NameOptional) ==
    parseVarDeclTyped(IF TypeName = Nil THEN parseType(tf, TRUE)
                      ELSE Ret(TypeName, tf),
                      NameOptional)

parseVarDecl(tf, TypeName, NameOptional) ==
    TokenFilterGuard(mark(tf), parseVarDeclBody(tf, TypeName, NameOptional))

\* The while loop of parseDeclStmt; p.node is Declaration.
DeclLoop(p, TypeName) ==
    LET Taken(q) == Commit(q.node, q.tf)
        Added(D, n) ==
            IF D.node = Nil THEN Fail(D.tf)
            ELSE IF checkKind(D.tf, "comma")
            THEN DeclLoop(setNext(n, D.tf), TypeName)
            ELSE IF ~checkKind(D.tf, "semi") THEN Fail(D.tf)
            ELSE DeclLoop(Ret(n, D.tf), TypeName)
        Declared(D) == Added(D, addKid(p.node, D.node))
    IN  IF peek(p.tf) = 0 THEN Fail(p.tf)
        ELSE IF checkKind(p.tf, "semi") THEN Taken(setNext(p.node, p.tf))
        ELSE Declared(parseVarDecl(p.tf, TypeName, FALSE))

parseDeclStmtTyped(TypeName) ==
    IF TypeName.node = Nil THEN Fail(TypeName.tf)
    ELSE DeclLoop(Ret(Node("DeclStmt"), TypeName.tf), TypeName.node)

parseDeclStmtBody(tf) == parseDeclStmtTyped(parseType(tf, FALSE))

parseDeclStmt(tf) == TokenFilterGuard(mark(tf), parseDeclStmtBody(tf))

\* Returns [ok, node, tf]: node is F as the call left it.
parseDestructor(tf, F) ==
    LET p == setNext(F, tf)
        Typed(T) ==
            [ok |-> T.node # Nil,
             node |-> IF T.node # Nil THEN addKid(p.node, T.node)
                      ELSE p.node,
             tf |-> T.tf]
    IN  IF ~checkKind(tf, "tilde") THEN [ok |-> FALSE, node |-> F, tf |-> tf]
        ELSE Typed(parseType(p.tf, TRUE))

\* The parameter loop of parseFunctionDecl; p.node is F.
ParamLoop(p) ==
    LET Added(V, n) ==
            IF V.node = Nil THEN Fail(V.tf)
            ELSE IF checkKind(V.tf, "comma") THEN ParamLoop(setNext(n, V.tf))
            ELSE Commit(n, V.tf)
        Declared(V) == Added(V, addKid(p.node, V.node))
    IN  IF Faulted(p.tf) \/ checkKind(p.tf, "r_paren")
        THEN Commit(p.node, p.tf)
        ELSE Declared(parseVarDecl(p.tf, Nil, TRUE))

\* Tokens between `)` and the next `{` or `;` are consumed and dropped.
SkipToBody(tf) ==
    IF peek(tf) # 0 /\ ~checkKind(tf, "l_brace") /\ ~checkKind(tf, "semi")
    THEN SkipToBody(next(tf))
    ELSE tf

\* After the parameter loop: `)`, the tokens skipped, an optional `;`.
parseFunctionDeclTail(P) ==
    LET Taken(p7) == Commit(p7.node, p7.tf)
        Skipped(p5, tf6) ==
            Taken(IF checkKind(tf6, "semi") THEN setNext(p5.node, tf6)
                  ELSE Ret(p5.node, tf6))
        Closed(p5) == Skipped(p5, SkipToBody(p5.tf))
    IN  IF ~P.dismissed THEN P
        ELSE IF ~checkKind(P.tf, "r_paren") THEN Fail(P.tf)
        ELSE Closed(setNext(P.node, P.tf))

\* p3 is F with its return type, or what parseDestructor returned: the name
\* (not in a destructor), `(` and the parameters.
parseFunctionDeclName(InDestructor, p3, NameOptional) ==
    LET named == ~InDestructor /\ checkKind(p3.tf, "identifier")
        p4 == IF named THEN setNext(p3.node, p3.tf) ELSE Ret(p3.node, p3.tf)
    IN  IF InDestructor /\ ~p3.ok THEN Fail(p3.tf)
        ELSE IF ~InDestructor /\ ~named /\ ~NameOptional THEN Fail(p3.tf)
        ELSE IF ~checkKind(p4.tf, "l_paren") THEN Fail(p4.tf)
        ELSE parseFunctionDeclTail(ParamLoop(setNext(p4.node, p4.tf)))

\* T is the return type; without one this can only be a destructor.
parseFunctionDeclTyped(p2, T, NameOptional) ==
    IF T.node = Nil /\ ~NameOptional THEN Fail(T.tf)
    ELSE parseFunctionDeclName(
           T.node = Nil,
           IF T.node # Nil
           THEN [ok |-> TRUE, node |-> addKid(p2.node, T.node), tf |-> T.tf]
           ELSE parseDestructor(T.tf, p2.node),
           NameOptional)

parseFunctionDeclBody(tf, NameOptional) ==
    LET p1 == IF checkKind(tf, "kw_static")
              THEN setNext(Node("FunctionDecl"), tf)
              ELSE Ret(Node("FunctionDecl"), tf)
        p2 == IF checkKind(p1.tf, "kw_virtual") THEN setNext(p1.node, p1.tf)
              ELSE p1
    IN  parseFunctionDeclTyped(p2, parseType(p2.tf, TRUE), NameOptional)

parseFunctionDecl(tf, NameOptional) ==
    TokenFilterGuard(mark(tf), parseFunctionDeclBody(tf, NameOptional))

(***************************************************************************)
(* Statements, scopes and classes.                                         *)
(***************************************************************************)
SyncKinds == {"semi", "r_brace", "l_brace"}

\* The while loop of skipUnparsable; p.node is UB.
SkipLoopNoBraceMut(p) ==
    LET Taken(Kind, q) ==
            IF Kind \in {"semi", "r_brace"} THEN q ELSE SkipLoop(q)
    IN  IF peek(p.tf) = 0 THEN p
        ELSE Taken(Toks[peek(p.tf)], setNext(p.node, p.tf))

SkipLoop(p) ==
    LET Taken(Kind, q) == IF Kind \in SyncKinds THEN q ELSE SkipLoop(q)
    IN  IF peek(p.tf) = 0 THEN p
        ELSE Taken(Toks[peek(p.tf)], setNext(p.node, p.tf))

skipUnparsable(tf) ==
    SkipLoop(Ret(Node("UnparsableBlock"),
                 assert(tf, peek(tf) # 0, "assert:455")))

parseLabelStmtBody(tf) ==
    LET AfterName(LabelName, tf1) ==
            IF ~checkKind(tf1, "colon") THEN Fail(tf1)
            ELSE Commit([kind |-> "LabelStmt",
                         toks |-> <<LabelName, peek(tf1)>>, kids |-> <<>>],
                        setASTReference(
                          setASTReference(next(tf1), LabelName), peek(tf1)))
    IN  IF ~checkKinds(tf, {"identifier", "kw_private", "kw_protected",
                            "kw_public"})
        THEN Fail(tf)
        ELSE AfterName(peek(tf), next(tf))

parseLabelStmt(tf) == TokenFilterGuard(mark(tf), parseLabelStmtBody(tf))

\* The while loop of parseScope; p.node is Sc.  Returns [ok, node, tf].
ScopeLoop(p) ==
    LET Added(St, n) ==
            IF Faulted(St.tf) THEN [ok |-> FALSE, node |-> p.node, tf |-> St.tf]
            ELSE IF St.node = Nil
            THEN [ok |-> checkKind(St.tf, "r_brace"), node |-> p.node,
                  tf |-> St.tf]
            ELSE IF peek(St.tf) = 0
            THEN [ok |-> FALSE, node |-> n, tf |-> St.tf]
            ELSE IF checkKind(St.tf, "r_brace")
            THEN [ok |-> TRUE, node |-> n, tf |-> St.tf]
            ELSE ScopeLoop(Ret(n, St.tf))
        Parsed(St) == Added(St, addKid(p.node, St.node))
    IN  Parsed(parseAny(p.tf, TRUE, TRUE))

parseScope(tf, Sc) ==
    IF checkKind(tf, "r_brace") THEN [ok |-> TRUE, node |-> Sc, tf |-> tf]
    ELSE ScopeLoop(Ret(Sc, tf))

parseCompoundStmt(tf) ==
    LET C == setNext(Node("CompoundStmt"), tf)
        Closing(S) ==
            IF checkKind(S.tf, "r_brace") THEN setNext(S.node, S.tf)
            ELSE Ret(S.node, S.tf)
    IN  IF ~checkKind(tf, "l_brace") THEN Ret(Nil, tf)
        ELSE Closing(parseScope(C.tf, C.node))

\* Returns [ok, node, tf]: node is C as the call left it.
parseClassScope(tf, C) ==
    LET p1 == setNext(C, tf)
        Ended(p3) == [ok |-> TRUE, node |-> p3.node, tf |-> p3.tf]
        Closed(p2) ==
            Ended(IF checkKind(p2.tf, "semi") THEN setNext(p2.node, p2.tf)
                  ELSE p2)
        Closing(S) ==
            IF ~S.ok THEN S
            ELSE Closed(IF checkKind(S.tf, "r_brace")
                        THEN setNext(S.node, S.tf)
                        ELSE Ret(S.node, S.tf))
    IN  IF ~checkKind(tf, "l_brace") THEN [ok |-> FALSE, node |-> C, tf |-> tf]
        ELSE Closing(parseScope(p1.tf, p1.node))

\* C->addBaseClass(Accessibility, T, Comma): null tokens are not stored.
addBaseClass(C, Accessibility, T, Comma) ==
    [C EXCEPT !.toks = @ \o (IF Accessibility = 0 THEN <<>>
                             ELSE <<Accessibility>>)
                         \o (IF Comma = 0 THEN <<>> ELSE <<Comma>>),
              !.kids = Append(@, T)]

\* The for (;;) loop over the base-clause; returns [node, tf, Skip].
BaseLoop(p) ==
    LET Typed(Accessibility, T) ==
            IF T.node = Nil THEN [node |-> p.node, tf |-> T.tf, Skip |-> TRUE]
            ELSE IF checkKind(T.tf, "l_brace")
            THEN [node |-> addBaseClass(p.node, Accessibility, T.node, 0),
                  tf |-> setASTReference(T.tf, Accessibility),
                  Skip |-> FALSE]
            ELSE IF ~checkKind(T.tf, "comma")
            THEN [node |-> p.node, tf |-> T.tf, Skip |-> TRUE]
            ELSE BaseLoop(
                   Ret(addBaseClass(p.node, Accessibility, T.node,
                                    peek(T.tf)),
                       setASTReference(
                         setASTReference(next(T.tf), Accessibility),
                         peek(T.tf))))
        access == checkKinds(p.tf, {"kw_private", "kw_protected",
                                    "kw_public"})
    IN  Typed(IF access THEN peek(p.tf) ELSE 0,
              parseType(IF access THEN next(p.tf) ELSE p.tf, FALSE))

\* while (!checkKind(TF, tok::l_brace)) TF.next();
SkipToBrace(tf) ==
    IF Faulted(tf) \/ checkKind(tf, "l_brace") THEN tf
    ELSE SkipToBrace(next(tf))

\* After the name and the base-clause: an extra `;`, or the class scope.
parseClassDeclBased(C3) ==
    LET Taken(C4) == Commit(C4.node, C4.tf)
    IN  IF checkKind(C3.tf, "semi") THEN Taken(setNext(C3.node, C3.tf))
        ELSE Taken(parseClassScope(C3.tf, C3.node))

\* Name is the class name: the base-clause, if a `:` follows.
parseClassDeclNamed(C0, Name) ==
    LET C1 == Ret(addKid(C0.node, Name.node), Name.tf)
        Bases(B) ==
            IF B.Skip THEN Ret(B.node, SkipToBrace(B.tf))
            ELSE Ret(B.node, B.tf)
    IN  IF Name.node = Nil THEN Fail(Name.tf)
        ELSE parseClassDeclBased(
               IF ~checkKind(C1.tf, "colon") THEN C1
               ELSE Bases(BaseLoop(setNext(C1.node, C1.tf))))

parseClassDeclBody(tf) ==
    LET C0 == setNext(Node("ClassDecl"), tf)
    IN  IF ~checkKinds(tf, {"kw_class", "kw_struct", "kw_union", "kw_enum"})
        THEN Fail(tf)
        ELSE parseClassDeclNamed(C0, parseType(C0.tf, TRUE))

parseClassDecl(tf) == TokenFilterGuard(mark(tf), parseClassDeclBody(tf))

\* The expression-plus-semicolon alternative of parseAny, in its own guard.
parseExprLineStmtBody(tf) ==
    LET Taken(q) == Commit(q.node, q.tf)
        Parsed(E) ==
            IF E.node # Nil /\ checkKind(E.tf, "semi")
            THEN Taken(setNext([kind |-> "ExprLineStmt", toks |-> <<>>,
                                kids |-> <<E.node>>], E.tf))
            ELSE Fail(E.tf)
    IN  Parsed(parseExpression(tf, 1, FALSE))

parseExprLineStmt(tf) ==
    TokenFilterGuard(mark(tf), parseExprLineStmtBody(tf))

\* After a FunctionDecl: an extra `;`, or the body.
FunctionTail(S) ==
    LET WithBody(Body) == Ret(addKid(S.node, Body.node), Body.tf)
    IN  IF checkKind(S.tf, "semi") THEN setNext(S.node, S.tf)
        ELSE IF checkKind(S.tf, "l_brace")
        THEN WithBody(parseCompoundStmt(S.tf))
        ELSE S

\* After a ClassDecl: an extra `;`, or a class scope.
ClassTail(S) ==
    LET WithScope(B) == Ret(B.node, B.tf)
    IN  IF checkKind(S.tf, "semi") THEN setNext(S.node, S.tf)
        ELSE IF checkKind(S.tf, "l_brace")
        THEN WithScope(parseClassScope(S.tf, S.node))
        ELSE S

parseAnyExprFirstMut(tf, SkipUnparsable, NameOptional) ==
    LET S1 == parseReturnStmt(tf)
        S6 == parseExprLineStmt(S1.tf)
        S3 == parseLabelStmt(S6.tf)
        S4 == parseFunctionDecl(S3.tf, NameOptional)
        S5 == parseClassDecl(S4.tf)
        S2 == parseDeclStmt(S5.tf)
    IN  IF ~Faulted(tf) /\ tf.First # 0 /\ tf.First = tf.Last
        THEN Ret(Nil, Fault(tf, "ub:70"))
        ELSE IF S1.node # Nil THEN S1
        ELSE IF S6.node # Nil THEN S6
        ELSE IF S3.node # Nil THEN S3
        ELSE IF S4.node # Nil THEN FunctionTail(S4)
        ELSE IF S5.node # Nil THEN ClassTail(S5)
        ELSE IF S2.node # Nil THEN S2
        ELSE IF SkipUnparsable THEN skipUnparsable(S2.tf)
        ELSE Ret(Nil, S2.tf)

\* parseAny once the expression alternative has been tried: its statement,
\* or else the resync block, or nothing.
parseAnyUnparsable(S6, SkipUnparsable) ==
    IF S6.node # Nil THEN S6
    ELSE IF SkipUnparsable THEN skipUnparsable(S6.tf)
    ELSE Ret(Nil, S6.tf)

\* parseAny once parseClassDecl has been tried.
parseAnyExprLineStmt(S5, SkipUnparsable) ==
    IF S5.node # Nil THEN ClassTail(S5)
    ELSE parseAnyUnparsable(parseExprLineStmt(S5.tf), SkipUnparsable)

\* parseAny once parseFunctionDecl has been tried.
parseAnyClassDecl(S4, SkipUnparsable) ==
    IF S4.node # Nil THEN FunctionTail(S4)
    ELSE parseAnyExprLineStmt(parseClassDecl(S4.tf), SkipUnparsable)

\* parseAny once parseLabelStmt has been tried.
parseAnyFunctionDecl(S3, SkipUnparsable, NameOptional) ==
    IF S3.node # Nil THEN S3
    ELSE parseAnyClassDecl(parseFunctionDecl(S3.tf, NameOptional),
                           SkipUnparsable)

\* parseAny once parseDeclStmt has been tried.
parseAnyLabelStmt(S2, SkipUnparsable, NameOptional) ==
    IF S2.node # Nil THEN S2
    ELSE parseAnyFunctionDecl(parseLabelStmt(S2.tf), SkipUnparsable,
                              NameOptional)

\* parseAny once parseReturnStmt has been tried.
parseAnyDeclStmt(S1, SkipUnparsable, NameOptional) ==
    IF S1.node # Nil THEN S1
    ELSE parseAnyLabelStmt(parseDeclStmt(S1.tf), SkipUnparsable, NameOptional)

\* checkKind dereferences First: on an empty buffer First = Last = `last`,
\* a pointer past the end, and the first read of it is undefined.
parseAny(tf, SkipUnparsable, NameOptional) ==
    IF ~Faulted(tf) /\ tf.First # 0 /\ tf.First = tf.Last
    THEN Ret(Nil, Fault(tf, "ub:70"))
    ELSE parseAnyDeclStmt(parseReturnStmt(tf), SkipUnparsable, NameOptional)

(***************************************************************************)
(* Token buffers the parser is run on.                                     *)
(***************************************************************************)
MaxLen == 3

MaxPhrases == 2

CoreKinds ==
    {"identifier", "semi", "kw_int", "l_paren", "r_paren", "l_brace",
     "r_brace", "comma", "star", "slash", "equal", "kw_return", "comment",
     "eof"}

Phrases ==
    {<<"kw_int", "identifier", "semi">>,
     <<"identifier", "star", "identifier", "semi">>,
     <<"kw_int", "identifier", "comma", "identifier", "semi">>,
     <<"kw_int", "identifier", "l_paren", "r_paren", "kw_const", "semi">>,
     <<"kw_int", "identifier", "l_paren", "r_paren", "l_brace">>,
     <<"r_brace">>,
     <<"kw_class", "identifier", "colon", "identifier", "semi">>,
     <<"kw_class", "identifier", "colon", "kw_public", "identifier",
       "comma", "identifier", "l_brace">>,
     <<"tilde", "identifier", "l_paren", "r_paren", "semi">>,
     <<"identifier", "slash", "slash", "identifier", "semi">>,
     <<"identifier", "period", "period", "identifier", "semi">>,
     <<"identifier", "less", "identifier", "greater", "identifier", "semi">>,
     <<"identifier", "l_paren", "identifier", "comma", "identifier", "plus",
       "identifier", "r_paren", "semi">>,
     <<"kw_return", "identifier", "arrow", "identifier", "period",
       "identifier", "semi">>,
     <<"kw_int", "semi">>,
     <<"identifier", "r_paren", "semi">>,
     <<"identifier", "colon">>,
     <<"comment">>,
     <<"identifier">>}

\* Binary operators of the precedence oracle, one kind or more per level,
\* and the member-access operators.
BinaryKinds ==
    {"comma", "equal", "question", "pipepipe", "ampamp", "pipe", "caret",
     "amp", "equalequal", "less", "greater", "lessless", "plus", "star",
     "slash", "periodstar", "period", "arrow"}

Scenarios ==
    {<<"kw_int", "identifier", "equal", "numeric_constant", "plus",
       "numeric_constant", "star", "numeric_constant", "semi">>,
     <<"identifier", "coloncolon", "identifier", "less", "kw_int",
       "greater", "identifier", "semi">>,
     <<"kw_int", "semi", "identifier", "r_paren", "semi", "kw_int",
       "identifier", "semi">>,
     <<"kw_class", "identifier", "colon", "kw_public", "identifier",
       "comma", "identifier", "l_brace", "kw_int", "identifier", "semi",
       "tilde", "identifier", "l_paren", "r_paren", "semi", "r_brace",
       "semi">>,
     <<"kw_int", "identifier", "l_paren", "r_paren", "l_brace",
       "identifier", "star", "identifier", "semi", "r_brace">>}

\* Calls: no argument, an empty argument, a trailing comma, two arguments.
CallBuffers ==
    {<<"identifier", "l_paren", "r_paren", "semi">>,
     <<"identifier", "l_paren", "comma", "r_paren", "semi">>,
     <<"identifier", "l_paren", "identifier", "comma", "r_paren", "semi">>,
     <<"identifier", "l_paren", "identifier", "comma", "identifier",
       "r_paren", "semi">>}

RECURSIVE Concat(_)
Concat(ss) == IF ss = <<>> THEN <<>> ELSE Head(ss) \o Concat(Tail(ss))

Buffers ==
    (UNION {[1..n -> CoreKinds] : n \in 0..MaxLen})
      \cup {Concat(ps) : ps \in UNION {[1..n -> Phrases] : n \in 1..MaxPhrases}}
      \cup {<<"identifier", op1, "identifier", op2, "identifier", "semi">> :
              op1 \in BinaryKinds, op2 \in BinaryKinds}
      \cup Scenarios
      \cup CallBuffers

(***************************************************************************)
(* fuzzyparse: the translation-unit driver.                                *)
(***************************************************************************)
Init ==
    /\ Toks \in Buffers
    /\ NDEBUG \in BOOLEAN
    /\ TF = TokenFilter(1, Len(Toks) + 1)
    /\ TU = <<>>
    /\ pc = "parsing"

\* One iteration of `while (TF.peek()) TU.addStmt(parseAny(TF));`.  A failed
\* assertion aborts the process; an undefined operation leaves it to the
\* build what happens next.
fuzzyparseLoop ==
    /\ pc = "parsing"
    /\ peek(TF) # 0
    /\ LET asserted(tf) ==
               tf.fault \in {"assert:84", "assert:177", "assert:210",
                             "assert:455"}
           Added(S) ==
               /\ TF' = S.tf
               /\ TU' = IF Faulted(S.tf) THEN TU ELSE Append(TU, S.node)
               /\ pc' = IF ~Faulted(S.tf) THEN "parsing"
                        ELSE IF asserted(S.tf) THEN "aborted"
                        ELSE "undefined"
       IN  Added(parseAny(TF, TRUE, FALSE))
    /\ UNCHANGED <<Toks, NDEBUG>>

\* `return TU;` once the cursor is exhausted.
fuzzyparseReturn ==
    /\ pc = "parsing"
    /\ peek(TF) = 0
    /\ pc' = "returned"
    /\ UNCHANGED <<Toks, NDEBUG, TF, TU>>

\* What a build may do after an undefined operation: crash, never return,
\* or return what it has.
UndefinedBehaviour ==
    /\ pc = "undefined"
    /\ pc' \in {"crashed", "hung", "returned"}
    /\ UNCHANGED <<Toks, NDEBUG, TF, TU>>

Next == fuzzyparseLoop \/ fuzzyparseReturn \/ UndefinedBehaviour

Spec == Init /\ [][Next]_vars

(***************************************************************************)
(* Reading the result: the nodes of the tree and the tokens under them.    *)
(***************************************************************************)
RECURSIVE NodesOf(_)
RECURSIVE TokSet(_)

\* The nodes of a tree in pre-order; a null child contributes nothing.
NodesOf(n) ==
    IF n = Nil THEN <<>>
    ELSE <<n>> \o Concat([i \in 1..Len(n.kids) |-> NodesOf(n.kids[i])])

AllNodes == Concat([i \in 1..Len(TU) |-> NodesOf(TU[i])])

TokSet(n) ==
    {n.toks[j] : j \in 1..Len(n.toks)}
      \cup UNION {TokSet(n.kids[i]) : i \in 1..Len(n.kids)}

FirstTok(n) == CHOOSE t \in TokSet(n) : \A u \in TokSet(n) : t <= u

StatementKinds ==
    {"ReturnStmt", "DeclStmt", "LabelStmt", "FunctionDecl", "ClassDecl",
     "ExprLineStmt", "UnparsableBlock"}

LastTok(n) == CHOOSE t \in TokSet(n) : \A u \in TokSet(n) : t >= u

IsStatement(n) == n.kind \in StatementKinds

\* The statements parseScope added to the scope of n, in order.
StmtsOf(n) == SelectSeq(n.kids, IsStatement)

\* A cursor standing at token i of the buffer.
At(i) == TokenFilter(i, Len(Toks) + 1)

\* The token next() would stop at after token i; Len(Toks) + 1 when none.
NextVisible(i) == SkipHidden(i + 1, Len(Toks) + 1)

NoVisibleAfter(i) ==
    NextVisible(i) = Len(Toks) + 1 \/ Toks[NextVisible(i)] = "eof"

\* Where parseAny was entered for the k-th statement of a sequence that
\* begins at token first: after the last token of statement k-1.
EntryOf(stmts, k, first) ==
    IF k = 1 THEN first ELSE NextVisible(LastTok(stmts[k - 1]))

\* The nodes below S that hold a scope, and the `{` that opens it.
ScopeNodes(S) ==
    {n \in {NodesOf(S)[i] : i \in 1..Len(NodesOf(S))} :
       n.kind \in {"CompoundStmt", "ClassDecl"} /\ StmtsOf(n) # <<>>}

LBrace(n) ==
    CHOOSE t \in {n.toks[j] : j \in 1..Len(n.toks)} : Toks[t] = "l_brace"

RECURSIVE CursorsFrom(_)
\* Every cursor next() reaches from tf, tf included.
CursorsFrom(tf) ==
    IF peek(tf) = 0 \/ tf.First = tf.Last THEN {}
    ELSE {tf} \cup CursorsFrom(next(tf))

(***************************************************************************)
(* Termination and coverage.                                               *)
(***************************************************************************)
\* C1: for every token buffer fuzzyparse terminates and returns: no loop
\* calls next() on an exhausted cursor, so no run ends in an undefined
\* increment of the null pointer (the run of `class A : B ;` included).
C1_NoAdvancePastExhausted == TF.fault # "ub:next"

\* Token i is one the claim speaks of: not a comment, unknown or eof token,
\* and not behind the eof token that ends the cursor's view.
Significant(i) ==
    /\ Toks[i] \notin {"comment", "unknown", "eof"}
    /\ \A j \in 1..i : Toks[j] # "eof"

\* C2: after fuzzyparse has returned, every token that is not a comment,
\* unknown or eof token has a non-null back-reference.  Stated for the
\* builds that check their assertions, where a run that returns has passed
\* every one of them.
C2_FullCoverage ==
    (pc = "returned" /\ ~Faulted(TF) /\ ~NDEBUG)
      => \A i \in 1..Len(Toks) : Significant(i) => i \in TF.Claimed

(***************************************************************************)
(* Speculative recognizers.                                                *)
(***************************************************************************)
\* The recognizer returned empty (or false) and the run goes on.
Failed(r) == r.node = Nil /\ ~Faulted(r.tf)

SameCursor(tf, c) == tf.First = c.First /\ tf.Last = c.Last

\* The outcomes of every guarded recognizer entered at cursor c.
Recognized(c) ==
    {parseType(c, TRUE), parseType(c, FALSE),
     parseVarDecl(c, Nil, FALSE), parseVarDecl(c, Nil, TRUE),
     parseVarDecl(c, Node("Type"), FALSE),
     parseDeclStmt(c), parseReturnStmt(c), parseLabelStmt(c),
     parseFunctionDecl(c, FALSE), parseFunctionDecl(c, TRUE),
     parseClassDecl(c), parseExprLineStmt(c)}

C4_Progress ==
    [][(pc = "parsing" /\ peek(TF) # 0 /\ TF.First # TF.Last)
         => /\ pc' = "parsing"
            /\ Len(TU') = Len(TU) + 1
            /\ TU'[Len(TU')] # Nil
            /\ (TF'.First = 0 \/ TF'.First > TF.First)]_vars

Blocks == {AllNodes[i] : i \in 1..Len(AllNodes)}
            \cap {n \in UNION {{AllNodes[i]} : i \in 1..Len(AllNodes)} :
                    n.kind = "UnparsableBlock"}

\* Non-empty, a contiguous run of the cursor's tokens, and no `;`, `{` or
\* `}` before the last token.
WellFormedBlock(b) ==
    /\ Len(b.toks) >= 1
    /\ \A j \in 1..(Len(b.toks) - 1) :
          /\ b.toks[j + 1] = NextVisible(b.toks[j])
          /\ Toks[b.toks[j]] \notin SyncKinds

\* C5 as the specification has it: each UnparsableBlock is well formed and
\* ends with `;`, `{` or `}`, or else with the final token of the buffer.
C5_EndsAtSyncOrFinalToken ==
    \A b \in Blocks :
        /\ WellFormedBlock(b)
        /\ Toks[LastTok(b)] \in SyncKinds \/ LastTok(b) = Len(Toks)

\* C5, amended: each UnparsableBlock is well formed and ends with `;`, `{`
\* or `}`, or else no token the cursor yields follows its last token (only
\* comment and unknown tokens, or the eof token, come after it).
C5_EndsAtSyncOrExhausted ==
    \A b \in Blocks :
        /\ WellFormedBlock(b)
        /\ Toks[LastTok(b)] \in SyncKinds \/ NoVisibleAfter(LastTok(b))

\* A block that resync ended because the cursor ran out, with tokens of the
\* buffer still behind its last one.
C5_Witness ==
    \E b \in Blocks :
        /\ Toks[LastTok(b)] \notin SyncKinds
        /\ LastTok(b) < Len(Toks)
        /\ NoVisibleAfter(LastTok(b))

(***************************************************************************)
(* Expressions and dispatch.                                               *)
(***************************************************************************)
Ref(i) == addTok(Node("DeclRefExpr"), i)

Bin(op, l, r) == [kind |-> "BinaryOperator", toks |-> <<op>>, kids |-> <<l, r>>]

\* The rank of a binary operator: the oracle's, or that of `.` and `->`.
Rank(Kind) ==
    IF Kind \in {"period", "arrow"} THEN PrecedenceArrowAndPeriod
    ELSE getBinOpPrecedence(Kind, TRUE, TRUE)

\* The buffer is `a op1 b op2 c ;` with ranked operators.
TwoOperators ==
    /\ Len(Toks) = 6
    /\ Toks[1] = "identifier" /\ Toks[3] = "identifier"
    /\ Toks[5] = "identifier" /\ Toks[6] = "semi"
    /\ Rank(Toks[2]) > 0 /\ Rank(Toks[4]) > 0

\* C6: `a op1 b op2 c ;` is parsed as one ExprLineStmt, grouped as
\* a op1 (b op2 c) when op1 ranks below op2 and as (a op1 b) op2 c when
\* they rank equal or op1 is `.` or `->`, for every pair of operators the
\* oracle ranks, `<` and `>` included.
C6_PrecedenceGrouping ==
    (/\ pc = "returned"
     /\ TwoOperators
     /\ Rank(Toks[2]) <= Rank(Toks[4]) \/ Toks[2] \in {"period", "arrow"})
      => TU = <<[kind |-> "ExprLineStmt", toks |-> <<6>>,
                 kids |-> <<IF Rank(Toks[2]) < Rank(Toks[4])
                            THEN Bin(2, Ref(1), Bin(4, Ref(3), Ref(5)))
                            ELSE Bin(4, Bin(2, Ref(1), Ref(3)), Ref(5))>>]>>

\* The kind of statement the dispatch order prescribes at cursor c.
FirstAccepting(c, NameOptional) ==
    CASE parseReturnStmt(c).node # Nil -> "ReturnStmt"
      [] parseDeclStmt(c).node # Nil -> "DeclStmt"
      [] parseLabelStmt(c).node # Nil -> "LabelStmt"
      [] parseFunctionDecl(c, NameOptional).node # Nil -> "FunctionDecl"
      [] parseClassDecl(c).node # Nil -> "ClassDecl"
      [] parseExprLineStmt(c).node # Nil -> "ExprLineStmt"
      [] OTHER -> "UnparsableBlock"

\* C7: every statement of the result, at top level and inside scopes, is of
\* the kind of the first recognizer, in the order ReturnStmt, DeclStmt,
\* LabelStmt, FunctionDecl, ClassDecl, ExprLineStmt, that accepts the tokens
\* where parseAny was entered for it, and an UnparsableBlock only if none
\* does.
C7_DispatchOrder ==
    TU # <<>>
      => /\ TU[Len(TU)].kind
              = FirstAccepting(At(EntryOf(TU, Len(TU), 1)), FALSE)
         /\ \A sc \in ScopeNodes(TU[Len(TU)]) :
               \A k \in 1..Len(StmtsOf(sc)) :
                  StmtsOf(sc)[k].kind
                    = FirstAccepting(
                        At(EntryOf(StmtsOf(sc), k, NextVisible(LBrace(sc)))),
                        TRUE)

\* A statement inside a scope that parseDeclStmt and the expression
\* alternative both accept, returned as the declaration.
C7_Witness ==
    /\ TU # <<>>
    /\ \E sc \in ScopeNodes(TU[Len(TU)]) :
          \E k \in 1..Len(StmtsOf(sc)) :
             /\ StmtsOf(sc)[k].kind = "DeclStmt"
             /\ parseExprLineStmt(
                  At(EntryOf(StmtsOf(sc), k,
                             NextVisible(LBrace(sc))))).node # Nil

(***************************************************************************)
(* Declarations, ownership and the binary loop.                            *)
(***************************************************************************)
\* Scenario S6: `int ; garble ) ; int y ;`.
RecoveryBuffer ==
    <<"kw_int", "semi", "identifier", "r_paren", "semi", "kw_int",
      "identifier", "semi">>

\* C8: a DeclStmt holds one VarDecl or more, one per comma and one for the
\* semicolon, so `int ;` is no DeclStmt, and the parse of
\* `int ; garble ) ; int y ;` is two UnparsableBlocks and then one DeclStmt.
C8_DeclarationNeedsDeclarator ==
    /\ \A i \in 1..Len(AllNodes) :
          AllNodes[i].kind = "DeclStmt"
            => /\ Len(AllNodes[i].kids) >= 1
               /\ Len(AllNodes[i].kids) = Len(AllNodes[i].toks)
    /\ (pc = "returned" /\ Toks = RecoveryBuffer)
         => [i \in 1..Len(TU) |-> TU[i].kind]
              = <<"UnparsableBlock", "UnparsableBlock", "DeclStmt">>

\* The places where a structured node of the result references token t.
References(t) ==
    {<<i, j>> \in (1..Len(AllNodes)) \X (1..Len(Toks)) :
       /\ AllNodes[i].kind # "UnparsableBlock"
       /\ j <= Len(AllNodes[i].toks)
       /\ AllNodes[i].toks[j] = t}

\* C9: no token is referenced by two structured nodes of the result, the
\* tokens of the type shared by the declarators of `int x, y;` included.
C9_ExclusiveOwnership ==
    \A t \in 1..Len(Toks) : Cardinality(References(t)) <= 1

\* C10: when the binary loop of parseExpression looks at an operator, its
\* precedence is at most the loop's own: the assertion
\* `CurrentPrecedence <= Precedence` fails in no run, whether or not the
\* left operand came back empty.
C10_BinaryLoopInvariant == TF.fault # "assert:210"

(***************************************************************************)
(* Complete expressions and call arguments.                                *)
(***************************************************************************)
\* Every operand slot of n holds an expression: no child of n is null.
Complete(n) == \A k \in 1..Len(n.kids) : n.kids[k] # Nil

\* C11: every expression node of the result is complete: a BinaryOperator
\* has a left and a right operand, a UnaryOperator has its operand and every
\* argument of a CallExpr is an expression; an expression with an empty
\* sub-expression (`/ 3 ;`, `- ;`, `f ( , ) ;`) is not returned at all.
C11_NoEmptyOperands ==
    \A i \in 1..Len(AllNodes) :
        AllNodes[i].kind \in {"BinaryOperator", "UnaryOperator", "CallExpr"}
          => Complete(AllNodes[i])

IsCommaTok(t) == Toks[t] = "comma"

\* The commas a CallExpr stores, and the entries of its argument list (the
\* first child is the callee).
CommasOf(n) == Len(SelectSeq(n.toks, IsCommaTok))

ArgsOf(n) == Len(n.kids) - 1

\* C12: a call is `callee (`, no argument or arguments with one comma
\* between each two, and `)`: every CallExpr of the result has one comma
\* fewer than arguments (none when it has no argument), so a call with a
\* comma directly before `)`, as in `f ( a , ) ;`, is not returned.
C12_NoTrailingComma ==
    \A i \in 1..Len(AllNodes) :
        AllNodes[i].kind = "CallExpr"
          => CommasOf(AllNodes[i])
               = IF ArgsOf(AllNodes[i]) = 0 THEN 0
                 ELSE ArgsOf(AllNodes[i]) - 1

(***************************************************************************)
(* The cursor's view of the buffer and the parsers' preconditions.         *)
(***************************************************************************)
RECURSIVE CursorStates(_, _)
\* Every cursor next() reaches from tf, tf included, each with the position
\* in the buffer it stands for: pos for tf, and the place after the token
\* next() returned for the cursor next() leaves.
CursorStates(tf, pos) ==
    {<<tf, pos>>}
      \cup (IF peek(tf) = 0 \/ tf.First = tf.Last THEN {}
            ELSE CursorStates(next(tf), tf.First + 1))

\* A token that is no comment, unknown or eof token remains at or after
\* pos, before any eof token.
Remains(pos) ==
    \E i \in pos..Len(Toks) :
        /\ Toks[i] \notin {"comment", "unknown"}
        /\ \A j \in pos..i : Toks[j] # "eof"

\* C13: in every state of the cursor, from its construction on any buffer
\* (an empty one, or one that begins with a comment, unknown or eof token,
\* included), peek() is null or a token of the buffer that is no comment,
\* unknown or eof token, and it is null exactly when no such token remains
\* at or after the cursor's position.
C13_PeekFiltered ==
    (pc = "parsing" /\ TU = <<>>)
      => \A s \in CursorStates(TF, 1) :
            /\ peek(s[1]) # 0
                  => /\ peek(s[1]) \in 1..Len(Toks)
                     /\ Toks[peek(s[1])] \notin {"comment", "unknown", "eof"}
            /\ peek(s[1]) = 0 <=> ~Remains(s[2])

\* C14: parseExpression, parseUnaryOperator and skipUnparsable are never
\* called on an exhausted cursor: in no run does one of their assertions
\* `TF.peek()` fail, nor, in a build without assertions, does parseExpression
\* read the kind of the null token; so no scope calls parseAny once the
\* stream has ended after `{`, and no `return`, `=`, operator, `(` or `,`
\* that ends the buffer leads to an expression parse.
C14_NonEmptyCursor ==
    TF.fault \notin {"assert:84", "assert:177", "assert:455", "ub:183"}

====
